---- MODULE Spec2Model ----
(***************************************************************************)
(* A model of AppStoreScreenshots/add_overlays.py: the screenshot batch    *)
(* driver (main, ScreenshotOverlayGenerator.__init__ / load_metadata,      *)
(* process_all_screenshots, process_screenshots_for_device and the six     *)
(* process_*_screenshot routines), the gradient compositor                 *)
(* (add_gradient_overlay, at pixel level) and the font-size arithmetic.    *)
(*                                                                         *)
(* Python's int() of a non-negative float is modelled by integer division  *)
(* on per-mille fractions; for every fraction the script uses this agrees  *)
(* with the float computation for all widths and heights up to 5000.       *)
(***************************************************************************)
EXTENDS Integers, Sequences, FiniteSets, TLC

(***************************************************************************)
(* Bounds of the model.                                                    *)
(***************************************************************************)
\* how many places of the file system may deviate from a clean tree
MaxAnomalies == 2
\* how many times in a row main is started
MaxRuns == 2
\* the largest width and height, in pixels, of the image and of the gradient region
MaxDim == 4
\* the largest image width tried besides the widths of the five device classes
MaxWidth == 100

(***************************************************************************)
(* Program constants.                                                      *)
(***************************************************************************)
\* device_types of process_all_screenshots, each label a sequence of characters
DeviceTypes ==
    << <<"i","P","h","o","n","e","_","6",".","7">>,
       <<"i","P","h","o","n","e","_","6",".","5">>,
       <<"i","P","h","o","n","e","_","5",".","5">>,
       <<"i","P","a","d","_","1","2",".","9">>,
       <<"i","P","a","d","_","1","1",".","0">> >>

\* the keys of screenshot_processors, in insertion order
Filenames ==
    <<"01_main_menu.png", "02_gameplay.png", "03_accessibility.png",
      "04_cultural_heritage.png", "05_statistics.png", "06_victory.png">>

Devices == 1..Len(DeviceTypes)
Categories == 1..Len(Filenames)

ROMANIAN_BLUE == "#004C9F"
ROMANIAN_YELLOW == "#FCD535"
ROMANIAN_RED == "#CE1126"
APP_STORE_BLACK == "#000000"
APP_STORE_WHITE == "#FFFFFF"

\* the prefix tested by device_type.startswith('iPhone')
PhonePrefix == <<"i","P","h","o","n","e">>

\* str.startswith
StartsWith(s, prefix) ==
    /\ Len(s) >= Len(prefix)
    /\ \A k \in 1..Len(prefix) : s[k] = prefix[k]

\* int(v * f) for v >= 0 and the fraction f = permille / 1000
IntFrac(v, permille) == (v * permille) \div 1000

(***************************************************************************)
(* The state.  The file system: the metadata file, the font files, and per *)
(* device the Raw directory, the Processed path, the raw files and the     *)
(* processed files.  The run: the position of main and what it printed.    *)
(***************************************************************************)
VARIABLES
    meta,       \* screenshot_metadata.json: "valid", "absent", "invalid", "unreadable"
    fonts,      \* the probed font files: "system", "unloadable", "none"
    rawDir,     \* rawDir[d]: {DeviceType}/Raw exists
    procDir,    \* procDir[d]: {DeviceType}/Processed is "absent", a "dir" or a "file"
    raw,        \* raw[d][c]: the raw file is "absent", a valid "png" or "corrupt"
    fault,      \* fault[d][c]: a step after the conversion raises for this screenshot
    out,        \* out[d][c]: the processed file
    pc,         \* "main", "all", "device", "done", "crashed"
    di,         \* index in device_types of the device being processed
    ci,         \* index in screenshot_processors of the filename being processed
    metadata,   \* self.metadata: "unset", "loaded", "empty"
    metaLog,    \* whether load_metadata printed "Metadata file not found"
    devLog,     \* devLog[d]: "none", "visited", "rawmissing"
    result,     \* result[d][c]: "none", "saved", "error", "notfound"
    lastStage,  \* the step that raised in the routine that ran last, or "none"
    exitStatus, \* -1 while running, then the exit status of the process
    runs,       \* how many times main has been started
    killed,     \* whether a run has been killed before it ended (at most one is)
    fs0,        \* the file system when the first run started
    grad,       \* a call of add_gradient_overlay: its arguments, loop index, overlay
    sizing      \* a computation of a title font size: its inputs and its result

fsVars == <<meta, fonts, rawDir, procDir, raw, fault, out>>
runVars == <<pc, di, ci, metadata, metaLog, devLog, result, lastStage, exitStatus>>
drvVars == <<fsVars, runVars, runs, killed, fs0>>
pureVars == <<grad, sizing>>
vars == <<drvVars, pureVars>>

(***************************************************************************)
(* Images and processed files.                                             *)
(***************************************************************************)
\* image.size of the raw screenshot of device d (the App Store sizes of the
\* five device classes), read by Image.open / image.size
RawSize(d) ==
    CASE d = 1 -> <<1290, 2796>>
      [] d = 2 -> <<1284, 2778>>
      [] d = 3 -> <<1242, 2208>>
      [] d = 4 -> <<2048, 2732>>
      [] OTHER -> <<1668, 2388>>

NoFile == [kind |-> "none", w |-> 0, h |-> 0, mode |-> "", ops |-> <<>>]
\* a file that a killed process left half written
PartialFile == [kind |-> "partial", w |-> 0, h |-> 0, mode |-> "", ops |-> <<>>]
\* a processed file left by some earlier version of the batch
StaleFile == [kind |-> "file", w |-> 640, h |-> 480, mode |-> "RGB", ops |-> <<>>]

\* Image.open(input_path)
OpenImage(d) ==
    [w |-> RawSize(d)[1], h |-> RawSize(d)[2], mode |-> "RGB", ops |-> <<>>]

\* image.convert(mode)
Convert(image, mode) == [image EXCEPT !.mode = mode]

DrawOp(op, id, x, y, w, h, size, color, strokeWidth, strokeFill, font) ==
    [op |-> op, id |-> id, x |-> x, y |-> y, w |-> w, h |-> h, size |-> size,
     color |-> color, strokeWidth |-> strokeWidth, strokeFill |-> strokeFill,
     font |-> font]

\* get_font_path and the try/except of create_overlay_text: a font file that is
\* found and loads gives a truetype font, anything else the default font
LoadFont(fontFiles) == IF fontFiles = "system" THEN "truetype" ELSE "default"

\* create_overlay_text: draws on the image in place and returns it
create_overlay_text(image, text, position, font_size, color, stroke_width, stroke_fill) ==
    [image EXCEPT !.ops = Append(@,
        DrawOp("text", text, position[1], position[2], 0, 0, font_size, color,
               IF stroke_width > 0 /\ stroke_fill # "" THEN stroke_width ELSE 0,
               IF stroke_width > 0 /\ stroke_fill # "" THEN stroke_fill ELSE "",
               LoadFont(fonts)))]

\* a compositor that would return an image of the size of the gradient region
add_gradient_overlay_RegionSized(image, start_color, position, size, opacityPct) ==
    [w |-> size[1], h |-> size[2], mode |-> "RGB",
     ops |-> Append(image.ops,
        DrawOp("gradient", "gradient", position[1], position[2], size[1], size[2],
               opacityPct, start_color, 0, "", ""))]

\* add_gradient_overlay, as the driver sees it: the overlay has image.size, and
\* alpha_composite(...).convert('RGB') is an RGB image of that size
add_gradient_overlay(image, start_color, position, size, opacityPct) ==
    [w |-> image.w, h |-> image.h, mode |-> "RGB",
     ops |-> Append(image.ops,
        DrawOp("gradient", "gradient", position[1], position[2], size[1], size[2],
               opacityPct, start_color, 0, "", ""))]

IsPhone(device_type) == StartsWith(device_type, PhonePrefix)

\* title_font_size of process_main_menu_screenshot
MainMenuTitleSize(width, device_type) ==
    IF IsPhone(device_type) THEN IntFrac(width, 80) ELSE IntFrac(width, 60)

\* a title size that would be rounded to the nearest integer
TitleSize_Rounded(width, device_type) ==
    IF IsPhone(device_type) THEN (width * 60 + 500) \div 1000
    ELSE (width * 45 + 500) \div 1000

\* title_font_size of the five other routines
TitleSize(width, device_type) ==
    IF IsPhone(device_type) THEN IntFrac(width, 60) ELSE IntFrac(width, 45)

\* subtitle_font_size of process_main_menu_screenshot
SubtitleSize(width, device_type) ==
    IF IsPhone(device_type) THEN IntFrac(width, 45) ELSE IntFrac(width, 35)

\* feature_font_size, rule_font_size, heritage_font_size, ...
FooterSize(width, device_type) ==
    IF IsPhone(device_type) THEN IntFrac(width, 35) ELSE IntFrac(width, 25)

\* the body of process_main_menu_screenshot up to the save
process_main_menu_screenshot(image0, device_type) ==
    LET width == image0.w
        height == image0.h
        rgba == Convert(image0, "RGBA")
        gradient_height == IntFrac(height, 300)
        graded == add_gradient_overlay(rgba, APP_STORE_BLACK, <<0, 0>>,
                                       <<width, gradient_height>>, 40)
        title_font_size == MainMenuTitleSize(width, device_type)
        subtitle_font_size == SubtitleSize(width, device_type)
        title_y == IntFrac(height, 100)
        titled == create_overlay_text(graded, "title",
                      <<IntFrac(width, 50), title_y>>, title_font_size,
                      APP_STORE_WHITE, 2, APP_STORE_BLACK)
        subtitle_y == title_y + title_font_size + 10
        subtitled == create_overlay_text(titled, "subtitle",
                      <<IntFrac(width, 50), subtitle_y>>, subtitle_font_size,
                      ROMANIAN_YELLOW, 1, APP_STORE_BLACK)
        feature_y == IntFrac(height, 850)
        feature_font_size == FooterSize(width, device_type)
        featured == create_overlay_text(subtitled, "feature",
                      <<IntFrac(width, 50), feature_y>>, feature_font_size,
                      APP_STORE_WHITE, 1, APP_STORE_BLACK)
    IN Convert(featured, "RGB")

\* the common body of the five other routines, which differ in their colours
TitleAndFooter(image0, device_type, titleColor, titleStroke, footerColor) ==
    LET width == image0.w
        height == image0.h
        rgba == Convert(image0, "RGBA")
        titled == create_overlay_text(rgba, "title",
                      <<IntFrac(width, 50), IntFrac(height, 80)>>,
                      TitleSize(width, device_type), titleColor, 2, titleStroke)
        footed == create_overlay_text(titled, "footer",
                      <<IntFrac(width, 50), IntFrac(height, 880)>>,
                      FooterSize(width, device_type), footerColor, 1,
                      APP_STORE_BLACK)
    IN Convert(footed, "RGB")

process_gameplay_screenshot(image0, device_type) ==
    TitleAndFooter(image0, device_type, ROMANIAN_RED, APP_STORE_WHITE, APP_STORE_WHITE)

process_accessibility_screenshot(image0, device_type) ==
    TitleAndFooter(image0, device_type, ROMANIAN_BLUE, APP_STORE_WHITE, APP_STORE_WHITE)

process_cultural_heritage_screenshot(image0, device_type) ==
    TitleAndFooter(image0, device_type, ROMANIAN_YELLOW, APP_STORE_BLACK, APP_STORE_WHITE)

process_statistics_screenshot(image0, device_type) ==
    TitleAndFooter(image0, device_type, ROMANIAN_BLUE, APP_STORE_WHITE, APP_STORE_WHITE)

process_victory_screenshot(image0, device_type) ==
    TitleAndFooter(image0, device_type, ROMANIAN_RED, APP_STORE_WHITE, ROMANIAN_YELLOW)

\* screenshot_processors[filename](raw_path, processed_path, device_type)
Processor(c, image0, device_type) ==
    CASE c = 1 -> process_main_menu_screenshot(image0, device_type)
      [] c = 2 -> process_gameplay_screenshot(image0, device_type)
      [] c = 3 -> process_accessibility_screenshot(image0, device_type)
      [] c = 4 -> process_cultural_heritage_screenshot(image0, device_type)
      [] c = 5 -> process_statistics_screenshot(image0, device_type)
      [] OTHER -> process_victory_screenshot(image0, device_type)

\* image.convert('RGB').save(output_path, 'PNG', quality=95): the file holds the
\* pixels of the image, that is its size, its mode and what was drawn on it
\* (kept as the name and the font size, or opacity, of each pass)
SavedFile(image) ==
    [kind |-> "file", w |-> image.w, h |-> image.h, mode |-> image.mode,
     ops |-> [k \in 1..Len(image.ops) |-> <<image.ops[k].id, image.ops[k].size>>]]

\* a routine that would open the processed file when there is one
InputImage_PreferProcessed(d, c, processed) ==
    IF processed.kind = "file"
    THEN [w |-> processed.w, h |-> processed.h, mode |-> processed.mode,
          ops |-> [k \in 1..Len(processed.ops) |->
                     DrawOp("prior", processed.ops[k][1], 0, 0, 0, 0,
                            processed.ops[k][2], "", 0, "", "")]]
    ELSE OpenImage(d)

\* the image a routine reads: Image.open(input_path), input_path in Raw
InputImage(d, c, processed) == OpenImage(d)

\* the steps of routine c at which an exception can be raised for a screenshot
\* whose raw file is rawFile and whose later steps fail iff faulty
RaisingStages(c, rawFile, faulty) ==
    IF rawFile = "corrupt" THEN {"open", "convert"}
    ELSE IF faulty THEN (IF c = 1 THEN {"gradient"} ELSE {}) \cup {"text", "save"}
    ELSE {}

\* the processed file after routine c ran for device d: written by the save, or
\* left as it was when a step raised (the except clause only prints)
AfterRoutine(d, c, rawFile, faulty, processed) ==
    IF RaisingStages(c, rawFile, faulty) # {} THEN processed
    ELSE SavedFile(Processor(c, InputImage(d, c, processed), DeviceTypes[d]))

(***************************************************************************)
(* The file systems a run may start from: a clean tree (metadata present,  *)
(* fonts installed, every Raw directory holding six valid PNG files, no    *)
(* Processed directory), changed in at most MaxAnomalies places.           *)
(***************************************************************************)
Anomaly(t, d, c, v) == [t |-> t, d |-> d, c |-> c, v |-> v]

Anomalies ==
    {Anomaly("meta", 0, 0, v) : v \in {"absent", "invalid", "unreadable"}}
    \cup {Anomaly("fonts", 0, 0, v) : v \in {"unloadable", "none"}}
    \cup {Anomaly("rawdir", d, 0, "absent") : d \in Devices}
    \cup {Anomaly("procdir", d, 0, v) : d \in Devices, v \in {"dir", "file", "stale"}}
    \cup {Anomaly("raw", d, c, v) : d \in Devices, c \in Categories, v \in {"absent", "corrupt"}}
    \cup {Anomaly("fault", d, c, "raises") : d \in Devices, c \in Categories}

\* the place of the file system an anomaly changes
Target(a) ==
    IF a.t \in {"raw", "fault"} THEN <<"shot", a.d, a.c>> ELSE <<a.t, a.d, 0>>

\* no two anomalies change the same place, and none lies in an absent Raw directory
Consistent(A) ==
    /\ \A a, b \in A : Target(a) = Target(b) => a = b
    /\ \A a, b \in A : ~(a.t = "rawdir" /\ b.t \in {"raw", "fault"} /\ a.d = b.d)

RECURSIVE UpTo(_, _)
UpTo(S, k) ==
    IF k = 0 THEN {{}}
    ELSE LET smaller == UpTo(S, k - 1)
         IN smaller \cup {A \cup {x} : A \in smaller, x \in S}

Environments(k) == {A \in UpTo(Anomalies, k) : Consistent(A)}

Has(A, t, d, c, v) == Anomaly(t, d, c, v) \in A

\* the file system with the anomalies A
InitFileSystem(A) ==
    /\ meta = IF \E a \in A : a.t = "meta"
              THEN (CHOOSE a \in A : a.t = "meta").v ELSE "valid"
    /\ fonts = IF \E a \in A : a.t = "fonts"
               THEN (CHOOSE a \in A : a.t = "fonts").v ELSE "system"
    /\ rawDir = [d \in Devices |-> ~Has(A, "rawdir", d, 0, "absent")]
    /\ procDir = [d \in Devices |->
                    IF Has(A, "procdir", d, 0, "file") THEN "file"
                    ELSE IF Has(A, "procdir", d, 0, "dir") \/ Has(A, "procdir", d, 0, "stale")
                         THEN "dir" ELSE "absent"]
    /\ raw = [d \in Devices |-> [c \in Categories |->
                    IF Has(A, "rawdir", d, 0, "absent") \/ Has(A, "raw", d, c, "absent")
                    THEN "absent"
                    ELSE IF Has(A, "raw", d, c, "corrupt") THEN "corrupt" ELSE "png"]]
    /\ fault = [d \in Devices |-> [c \in Categories |-> Has(A, "fault", d, c, "raises")]]
    /\ out = [d \in Devices |-> [c \in Categories |->
                    IF Has(A, "procdir", d, 0, "stale") THEN StaleFile ELSE NoFile]]

\* main has not started
InitRun ==
    /\ pc = "main"
    /\ di = 1
    /\ ci = 1
    /\ metadata = "unset"
    /\ metaLog = FALSE
    /\ devLog = [d \in Devices |-> "none"]
    /\ result = [d \in Devices |-> [c \in Categories |-> "none"]]
    /\ lastStage = "none"
    /\ exitStatus = -1

Init ==
    /\ \E A \in Environments(MaxAnomalies) : InitFileSystem(A)
    /\ InitRun
    /\ runs = 1
    /\ killed = FALSE
    /\ fs0 = [procDir |-> procDir, out |-> out, raw |-> raw]
    /\ grad = [pc |-> "idle"]
    /\ sizing = [pc |-> "idle"]

(***************************************************************************)
(* The run of main.                                                        *)
(***************************************************************************)
\* which exception open() / json.load() raise in load_metadata, or "none"
MetadataError(m) ==
    CASE m = "absent" -> "FileNotFoundError"
      [] m = "unreadable" -> "PermissionError"
      [] m = "invalid" -> "JSONDecodeError"
      [] OTHER -> "none"

\* the except clauses of load_metadata
MetadataCaught(error) == error = "FileNotFoundError"

\* main: ScreenshotOverlayGenerator(base_dir), that is __init__ and load_metadata;
\* an exception that load_metadata does not catch ends the process
LoadMetadata ==
    /\ pc = "main"
    /\ LET error == MetadataError(meta)
       IN IF error = "none"
          THEN /\ metadata' = "loaded"
               /\ pc' = "all"
               /\ UNCHANGED <<metaLog, exitStatus>>
          ELSE IF MetadataCaught(error)
          THEN /\ metadata' = "empty"
               /\ metaLog' = TRUE
               /\ pc' = "all"
               /\ UNCHANGED exitStatus
          ELSE /\ pc' = "crashed"
               /\ exitStatus' = 1
               /\ UNCHANGED <<metadata, metaLog>>
    /\ UNCHANGED <<fsVars, di, ci, devLog, result, lastStage, runs, killed, fs0>>
    /\ UNCHANGED pureVars

\* processed_dir.mkdir(exist_ok=True): "raises" iff the path is a non-directory
Mkdir(path) == IF path = "file" THEN "raises" ELSE "dir"

\* the next position of the loop of process_all_screenshots
NextDevice ==
    /\ di' = di + 1
    /\ ci' = 1
    /\ pc' = "all"

\* process_all_screenshots calls process_screenshots_for_device(device_types[di]),
\* which returns at once without a Raw directory and creates Processed otherwise
EnterDevice ==
    /\ pc = "all"
    /\ di <= Len(DeviceTypes)
    /\ IF ~rawDir[di]
       THEN /\ devLog' = [devLog EXCEPT ![di] = "rawmissing"]
            /\ NextDevice
            /\ UNCHANGED <<procDir, exitStatus>>
       ELSE IF Mkdir(procDir[di]) = "raises"
       THEN /\ devLog' = [devLog EXCEPT ![di] = "visited"]
            /\ pc' = "crashed"
            /\ exitStatus' = 1
            /\ UNCHANGED <<procDir, di, ci>>
       ELSE /\ devLog' = [devLog EXCEPT ![di] = "visited"]
            /\ procDir' = [procDir EXCEPT ![di] = Mkdir(procDir[di])]
            /\ pc' = "device"
            /\ ci' = 1
            /\ UNCHANGED <<di, exitStatus>>
    /\ UNCHANGED <<meta, fonts, rawDir, raw, fault, out, metadata, metaLog,
                   result, lastStage, runs, killed, fs0>>
    /\ UNCHANGED pureVars

\* the next position of the loop of process_screenshots_for_device
NextFilename ==
    IF ci < Len(Filenames)
    THEN /\ ci' = ci + 1
         /\ UNCHANGED <<pc, di>>
    ELSE NextDevice

\* one iteration of the loop of process_screenshots_for_device: the routine of
\* the filename runs if the raw file exists, with its try/except
ProcessScreenshot ==
    /\ pc = "device"
    /\ IF raw[di][ci] = "absent"
       THEN /\ result' = [result EXCEPT ![di][ci] = "notfound"]
            /\ lastStage' = "none"
            /\ UNCHANGED out
       ELSE LET stages == RaisingStages(ci, raw[di][ci], fault[di][ci])
            IN /\ out' = [out EXCEPT ![di][ci] =
                            AfterRoutine(di, ci, raw[di][ci], fault[di][ci], @)]
               /\ IF stages = {}
                  THEN /\ result' = [result EXCEPT ![di][ci] = "saved"]
                       /\ lastStage' = "none"
                  ELSE /\ result' = [result EXCEPT ![di][ci] = "error"]
                       /\ \E stage \in stages : lastStage' = stage
    /\ NextFilename
    /\ UNCHANGED <<meta, fonts, rawDir, procDir, raw, fault, metadata, metaLog,
                   devLog, exitStatus, runs, killed, fs0>>
    /\ UNCHANGED pureVars

\* process_all_screenshots returns, then main: the process exits with status 0
Finish ==
    /\ pc = "all"
    /\ di > Len(DeviceTypes)
    /\ pc' = "done"
    /\ exitStatus' = 0
    /\ UNCHANGED <<fsVars, di, ci, metadata, metaLog, devLog, result, lastStage,
                   runs, killed, fs0>>
    /\ UNCHANGED pureVars

Next == LoadMetadata \/ EnterDevice \/ ProcessScreenshot \/ Finish

Spec == Init /\ [][Next]_vars

(***************************************************************************)
(* Running main again, after a run that ended or that was killed.          *)
(***************************************************************************)
\* what is left of a killed process: nothing but its exit status
Killed ==
    /\ pc' = "killed"
    /\ exitStatus' = 130
    /\ killed' = TRUE
    /\ di' = 1
    /\ ci' = 1
    /\ metadata' = "unset"
    /\ metaLog' = FALSE
    /\ devLog' = [d \in Devices |-> "none"]
    /\ result' = [d \in Devices |-> [c \in Categories |-> "none"]]
    /\ lastStage' = "none"

\* the process is killed between two steps
Interrupt ==
    /\ ~killed
    /\ pc \in {"main", "all", "device"}
    /\ Killed
    /\ UNCHANGED <<fsVars, runs, fs0>>
    /\ UNCHANGED pureVars

\* the process is killed while image.save writes the processed file
InterruptDuringSave ==
    /\ ~killed
    /\ pc = "device"
    /\ raw[di][ci] # "absent"
    /\ RaisingStages(ci, raw[di][ci], fault[di][ci]) = {}
    /\ out' = [out EXCEPT ![di][ci] = PartialFile]
    /\ Killed
    /\ UNCHANGED <<meta, fonts, rawDir, procDir, raw, fault, runs, fs0>>
    /\ UNCHANGED pureVars

\* main is started again on the file system the last run left
Rerun ==
    /\ pc \in {"done", "crashed", "killed"}
    /\ runs < MaxRuns
    /\ runs' = runs + 1
    /\ pc' = "main"
    /\ di' = 1
    /\ ci' = 1
    /\ metadata' = "unset"
    /\ metaLog' = FALSE
    /\ devLog' = [d \in Devices |-> "none"]
    /\ result' = [d \in Devices |-> [c \in Categories |-> "none"]]
    /\ lastStage' = "none"
    /\ exitStatus' = -1
    /\ UNCHANGED <<fsVars, killed, fs0>>
    /\ UNCHANGED pureVars

\* the file systems that differ from the clean tree in at most one place
InitRerun ==
    /\ \E A \in Environments(1) : InitFileSystem(A)
    /\ InitRun
    /\ runs = 1
    /\ killed = FALSE
    /\ fs0 = [procDir |-> procDir, out |-> out, raw |-> raw]
    /\ grad = [pc |-> "idle"]
    /\ sizing = [pc |-> "idle"]

NextRerun == Next \/ Interrupt \/ InterruptDuringSave \/ Rerun

SpecRerun == InitRerun /\ [][NextRerun]_vars

(***************************************************************************)
(* One complete run of main as a function of the file system it starts     *)
(* from: the loops of process_all_screenshots and of                       *)
(* process_screenshots_for_device folded over the devices and filenames.   *)
(***************************************************************************)
RECURSIVE FilenamesFrom(_, _, _)
FilenamesFrom(d, c, o) ==
    IF c > Len(Filenames) THEN o
    ELSE FilenamesFrom(d, c + 1,
            IF raw[d][c] = "absent" THEN o
            ELSE [o EXCEPT ![d][c] = AfterRoutine(d, c, raw[d][c], fault[d][c], @)])

RECURSIVE DevicesFrom(_, _, _)
DevicesFrom(d, pd, o) ==
    IF d > Len(DeviceTypes) THEN [procDir |-> pd, out |-> o, status |-> 0]
    ELSE IF ~rawDir[d] THEN DevicesFrom(d + 1, pd, o)
    ELSE IF Mkdir(pd[d]) = "raises" THEN [procDir |-> pd, out |-> o, status |-> 1]
    ELSE DevicesFrom(d + 1, [pd EXCEPT ![d] = Mkdir(pd[d])], FilenamesFrom(d, 1, o))

\* main, started with the metadata file in state m
CompleteRun(m, pd, o) ==
    IF MetadataError(m) # "none" /\ ~MetadataCaught(MetadataError(m))
    THEN [procDir |-> pd, out |-> o, status |-> 1]
    ELSE DevicesFrom(1, pd, o)

(***************************************************************************)
(* Properties of the batch driver.                                         *)
(***************************************************************************)
\* the run has ended, by returning from main or by an uncaught exception
Ended == pc \in {"done", "crashed"}

\* an exception escaped load_metadata, so process_all_screenshots never started
CrashedInLoadMetadata == pc = "crashed" /\ metadata = "unset"

\* an exception escaped process_screenshots_for_device(device_types[d])
CrashedInDevice(d) == pc = "crashed" /\ metadata # "unset" /\ di = d

\* the loop of process_screenshots_for_device reached filename c of device d
Attempted(d, c) == result[d][c] # "none"

\* process_screenshots_for_device was called for device d
Visited(d) == devLog[d] # "none"

\* C1: an exception raised in a process_*_screenshot routine is caught and
\* logged there, and once the run has ended every later filename of the same
\* device and every later device has still been attempted.
C1_FailingScreenshotNeverAbortsBatch ==
    \A d \in Devices, c \in Categories :
        (raw[d][c] # "absent" /\ RaisingStages(c, raw[d][c], fault[d][c]) # {}
         /\ Attempted(d, c))
        => /\ result[d][c] = "error"
           /\ ~CrashedInDevice(d)
           /\ Ended => /\ \A c2 \in Categories : c2 > c => Attempted(d, c2)
                       /\ \A d2 \in Devices : d2 > d => Visited(d2)

\* C2: whatever the file system holds, main never ends by an uncaught
\* exception: the exit status is 0 once the process has ended.
C2_AlwaysExitsZero == pc # "crashed" /\ (Ended => exitStatus = 0)

\* C3: when a raw file is absent no processed file is created for it, no
\* exception escapes process_screenshots_for_device for its device, and once
\* the run has ended the filenames whose raw files are present were processed.
C3_AbsentRawIsSkipped ==
    \A d \in Devices, c \in Categories :
        (runs = 1 /\ rawDir[d] /\ raw[d][c] = "absent")
        => /\ out[d][c] = fs0.out[d][c]
           /\ ~CrashedInDevice(d)
           /\ (Ended /\ Visited(d)) =>
                 \A c2 \in Categories :
                     raw[d][c2] # "absent" => result[d][c2] \in {"saved", "error"}

\* the processed file of device d, filename c exists with the size of its raw file
SameSizeOutput(d, c) ==
    /\ out[d][c].kind = "file"
    /\ <<out[d][c].w, out[d][c].h>> = RawSize(d)

C7_AbsentMetadataChangesNothing ==
    meta = "absent" =>
        /\ pc # "crashed"
        /\ pc # "main" => (metadata = "empty" /\ metaLog)
        /\ (pc = "done" /\ runs = 1) =>
              /\ \A d \in Devices : Visited(d)
              /\ \A d \in Devices, c \in Categories : rawDir[d] => Attempted(d, c)
              /\ out = CompleteRun("valid", fs0.procDir, fs0.out).out

\* C8: once process_all_screenshots has ended, every device was visited, in the
\* order of device_types, and a device without a Raw directory was skipped as a
\* whole: no Processed directory and no processed file was created for it.
C8_EveryDeviceVisitedInOrder ==
    /\ \A d, d2 \in Devices : (d2 < d /\ Visited(d)) => Visited(d2)
    /\ (Ended /\ ~CrashedInLoadMetadata) => \A d \in Devices : Visited(d)
    /\ \A d \in Devices :
          (runs = 1 /\ Visited(d) /\ ~rawDir[d])
          => /\ devLog[d] = "rawmissing"
             /\ procDir[d] = fs0.procDir[d]
             /\ out[d] = fs0.out[d]

\* C9: whenever a run ends, be it the first one, a second one in a row or one
\* that follows a killed run, the file system is that of one complete run from
\* the initial file system, and no raw file has changed.
C9_RerunsAreIdempotent ==
    Ended =>
        /\ LET once == CompleteRun(meta, fs0.procDir, fs0.out)
           IN /\ procDir = once.procDir
              /\ out = once.out
              /\ exitStatus = once.status
        /\ raw = fs0.raw

\* C9 witness: a run that followed a killed run has ended, on a tree that had no
\* processed file at first and now holds all thirty
C9_Witness ==
    /\ pc = "done"
    /\ runs >= 2
    /\ killed
    /\ fs0.out[1][1].kind = "none"
    /\ \A d \in Devices, c \in Categories : out[d][c].kind = "file"

(***************************************************************************)
(* add_gradient_overlay at pixel level, on a small image.  The overlay is  *)
(* a transparent RGBA image of the size of the image; strip i of the loop  *)
(* is drawn by draw.rectangle([x, y + i, x + width, y + i + 1]), whose     *)
(* bounding box Pillow fills inclusive of both end points, clipped to the  *)
(* image; drawing on an RGBA image replaces the pixels it covers.          *)
(***************************************************************************)
\* opacities tried, in percent: 0.4 is the one the script passes, 0.8 the default
Opacities == {0, 1, 40, 80, 100}

\* the (opacity, height, i) up to height 11 for which the product in double
\* precision falls just below the integer that exact arithmetic gives
FloatShortfall == {<<40, 6, 5>>, <<80, 6, 5>>, <<100, 5, 4>>, <<100, 10, 8>>}

\* a gradient that would grow from transparent to the opacity
GradientAlpha_Reversed(opacityPct, i, height) ==
    (opacityPct * 255 * i) \div (100 * height)

\* alpha = int(opacity * 255 * (1 - i / height))
GradientAlpha(opacityPct, i, height) ==
    LET exact == (opacityPct * 255 * (height - i)) \div (100 * height)
    IN IF <<opacityPct, height, i>> \in FloatShortfall THEN exact - 1 ELSE exact

Pixels(iw, ih) == (0..(iw - 1)) \X (0..(ih - 1))

\* draw.rectangle([x0, y0, x1, y1], fill=(r, g, b, alpha)) on the overlay
DrawRectangle(overlay, x0, y0, x1, y1, alpha) ==
    [p \in DOMAIN overlay |->
        IF x0 <= p[1] /\ p[1] <= x1 /\ y0 <= p[2] /\ p[2] <= y1
        THEN alpha ELSE overlay[p]]

\* Image.alpha_composite(image.convert('RGBA'), overlay).convert('RGB') for a
\* black overlay on an opaque image, one grey level per pixel
AlphaComposite(base, overlay) ==
    [p \in DOMAIN base |-> (base[p] * (255 - overlay[p])) \div 255]

InitGradient ==
    /\ \E iw \in 1..MaxDim, ih \in 1..MaxDim, x \in 0..(MaxDim - 1),
          y \in 0..(MaxDim - 1), width \in 0..MaxDim, height \in 0..MaxDim,
          opacity \in Opacities :
          grad = [pc |-> "loop", iw |-> iw, ih |-> ih, x |-> x, y |-> y,
                  width |-> width, height |-> height, opacity |-> opacity,
                  i |-> 0,
                  base |-> [p \in Pixels(iw, ih) |-> 200],
                  overlay |-> [p \in Pixels(iw, ih) |-> 0],
                  composite |-> <<>>]
    /\ sizing = [pc |-> "idle"]
    /\ InitFileSystem({})
    /\ InitRun
    /\ runs = 1
    /\ killed = FALSE
    /\ fs0 = [procDir |-> procDir, out |-> out, raw |-> raw]

\* one iteration of "for i in range(height)"
GradientStrip ==
    /\ grad.pc = "loop"
    /\ grad.i < grad.height
    /\ grad' = [grad EXCEPT
                  !.overlay = DrawRectangle(@, grad.x, grad.y + grad.i,
                                            grad.x + grad.width, grad.y + grad.i + 1,
                                            GradientAlpha(grad.opacity, grad.i, grad.height)),
                  !.i = @ + 1]
    /\ UNCHANGED <<drvVars, sizing>>

\* the loop has ended: the overlay is composited onto the image
GradientComposite ==
    /\ grad.pc = "loop"
    /\ grad.i >= grad.height
    /\ grad' = [grad EXCEPT !.composite = AlphaComposite(grad.base, grad.overlay),
                            !.pc = "done"]
    /\ UNCHANGED <<drvVars, sizing>>

NextGradient == GradientStrip \/ GradientComposite

SpecGradient == InitGradient /\ [][NextGradient]_vars

\* the pixel p lies in the region of the given position and size
InRegion(p, x, y, width, height) ==
    /\ x <= p[1] /\ p[1] <= x + width - 1
    /\ y <= p[2] /\ p[2] <= y + height - 1

\* the call has returned and the left end of the top row and of the bottom row
\* of a region of height >= 1 lies in the image
GradientEndsVisible ==
    /\ grad.pc = "done"
    /\ grad.height >= 1
    /\ grad.width >= 1
    /\ <<grad.x, grad.y>> \in DOMAIN grad.overlay
    /\ <<grad.x, grad.y + grad.height - 1>> \in DOMAIN grad.overlay

TopAlpha == grad.overlay[<<grad.x, grad.y>>]
BottomAlpha == grad.overlay[<<grad.x, grad.y + grad.height - 1>>]

\* C5, as claimed: the overlay alpha of the top row of the region is the opacity
\* (opacity * 255, rounded down) and that of the bottom row y + height - 1 is 0.
C5_FadesFromOpacityToZero ==
    GradientEndsVisible =>
        /\ TopAlpha = (grad.opacity * 255) \div 100
        /\ BottomAlpha = 0

\* C5, amended: the alpha of the top row is int(opacity * 255); that of the
\* bottom row is the alpha of the last strip, about opacity * 255 / height: it
\* is 0 when opacity * 255 < height, positive when opacity * 255 > height, and
\* for a region one row high it is the alpha of the top row.
C5_FadesFromOpacityToLastStrip ==
    GradientEndsVisible =>
        /\ TopAlpha = (grad.opacity * 255) \div 100
        /\ BottomAlpha <= TopAlpha
        /\ grad.opacity * 255 < 100 * grad.height => BottomAlpha = 0
        /\ grad.opacity * 255 > 100 * grad.height => BottomAlpha > 0
        /\ grad.height = 1 => BottomAlpha = TopAlpha

\* C5 witness: a region three rows high at opacity 0.4 (top row 102, bottom row
\* 34), and one at opacity 0.01 whose bottom row is transparent
C5_Witness ==
    /\ GradientEndsVisible
    /\ grad.height = 3
    /\ \/ grad.opacity = 40 /\ TopAlpha = 102 /\ BottomAlpha = 34
       \/ grad.opacity = 1 /\ TopAlpha = 2 /\ BottomAlpha = 0

\* C10: every pixel outside the rows y .. y + height - 1 or outside the columns
\* x .. x + width - 1 has overlay alpha 0 and keeps the colour of the input image
\* (stated here for the regions that are at least one pixel wide and high).
C10_OnlyRegionChanges ==
    (grad.pc = "done" /\ grad.width >= 1 /\ grad.height >= 1) =>
        \A p \in DOMAIN grad.overlay :
            ~InRegion(p, grad.x, grad.y, grad.width, grad.height)
            => (grad.overlay[p] = 0 /\ grad.composite[p] = grad.base[p])

(***************************************************************************)
(* The title font size of a routine, for a width and a device-type label.  *)
(***************************************************************************)
\* the labels tried: the five device types, and labels around the prefix
Labels ==
    {DeviceTypes[d] : d \in Devices}
    \cup {<<"i","P","h","o","n","e">>, <<"i","P","h","o","n">>,
          <<"i","p","h","o","n","e","_","6",".","7">>,
          <<"A","n","d","r","o","i","d">>}

\* the widths tried: every small width, and the widths of the five device classes
Widths == (1..MaxWidth) \cup {RawSize(d)[1] : d \in Devices}

\* title_font_size of routine c
TitleFontSize(c, width, device_type) ==
    IF c = 1 THEN MainMenuTitleSize(width, device_type)
    ELSE TitleSize(width, device_type)

InitSizing ==
    /\ \E width \in Widths, label \in Labels, c \in Categories :
          sizing = [pc |-> "start", width |-> width, label |-> label,
                    routine |-> c, title |-> 0]
    /\ grad = [pc |-> "idle"]
    /\ InitFileSystem({})
    /\ InitRun
    /\ runs = 1
    /\ killed = FALSE
    /\ fs0 = [procDir |-> procDir, out |-> out, raw |-> raw]

\* the assignment to title_font_size
ComputeTitleSize ==
    /\ sizing.pc = "start"
    /\ sizing' = [sizing EXCEPT
                    !.title = TitleFontSize(sizing.routine, sizing.width, sizing.label),
                    !.pc = "done"]
    /\ UNCHANGED <<drvVars, grad>>

NextSizing == ComputeTitleSize

SpecSizing == InitSizing /\ [][NextSizing]_vars

\* the label begins with the six characters of "iPhone"
HasPhonePrefix(label) == Len(label) >= 6 /\ SubSeq(label, 1, 6) = PhonePrefix

\* the fraction of the width, in thousandths, that the title size is claimed to be
ClaimedPermille(c, label) ==
    IF c = 1 THEN (IF HasPhonePrefix(label) THEN 80 ELSE 60)
    ELSE (IF HasPhonePrefix(label) THEN 60 ELSE 45)

\* round(n / d) as Python rounds: to the nearest integer, a tie to the even one
RoundDiv(n, d) ==
    LET q == n \div d
        r == n % d
    IN IF 2 * r < d THEN q
       ELSE IF 2 * r > d THEN q + 1
       ELSE IF q % 2 = 0 THEN q ELSE q + 1

\* the title size of the same routine and width for a label of the other tier
OtherTierTitle ==
    TitleFontSize(sizing.routine, sizing.width,
                  IF HasPhonePrefix(sizing.label) THEN DeviceTypes[4] ELSE DeviceTypes[1])

\* C6, as claimed: the title size is round(width * fraction), with the fraction
\* of the label's tier and of the routine, and the two tiers give distinct
\* sizes for every width.
C6_TitleSizeIsRounded ==
    sizing.pc = "done" =>
        /\ sizing.title =
              RoundDiv(sizing.width * ClaimedPermille(sizing.routine, sizing.label), 1000)
        /\ sizing.title # OtherTierTitle

\* C6, amended: the title size is int(width * fraction), the product rounded
\* down, with the fraction of the label's tier and of the routine; the two tiers
\* give distinct sizes for every width from 50 on (from 38 on in the main-menu
\* routine), not for every width.
C6_TitleSizeIsTruncated ==
    sizing.pc = "done" =>
        LET product == sizing.width * ClaimedPermille(sizing.routine, sizing.label)
        IN /\ sizing.title * 1000 <= product
           /\ product < (sizing.title + 1) * 1000
           /\ sizing.width >= (IF sizing.routine = 1 THEN 38 ELSE 50)
              => sizing.title # OtherTierTitle

\* C6 witness: width 1284 on a phone gives 77 in the gameplay routine, and
\* width 1242 gives 74 where rounding would give 75
C6_Witness ==
    /\ sizing.pc = "done"
    /\ sizing.routine = 2
    /\ HasPhonePrefix(sizing.label)
    /\ \/ sizing.width = 1284 /\ sizing.title = 77
       \/ sizing.width = 1242 /\ sizing.title = 74

====
